---------------------------- MODULE Spec2Model ----------------------------
(***************************************************************************)
(* Mobi protocol v21 reference implementation (src/src/mobi.c, mobi.h).    *)
(*                                                                         *)
(* Bytes and chars are integers (a char is its ASCII code, NUL is 0).      *)
(* A C array is a sequence; C index i is sequence index i + 1 (see At).    *)
(* A uint32_t is a pair <<hi, lo>> of 16-bit halves, because the integers  *)
(* of the model checker are 32-bit signed; all word arithmetic is          *)
(* modulo 2^32.  A 72-bit sample is never an integer: it stays the 9 bytes *)
(* the code works on.                                                      *)
(***************************************************************************)
EXTENDS Integers, Sequences, FiniteSets, TLC

At(s, i) == s[i + 1]

Put(s, i, x) == [s EXCEPT ![i + 1] = x]

\* A function with domain 1..n as a plain tuple (arrays are always tuples).
Array(f) == f \o <<>>

Fill(n, x) == Array([i \in 1..n |-> x])

(***************************************************************************)
(* 32-bit word operations (the C operators ^ & ~ + >> on uint32_t).        *)
(***************************************************************************)
RECURSIVE XorBits(_, _, _)
XorBits(a, b, n) ==
    IF n = 0 THEN 0
    ELSE ((a + b) % 2) + 2 * XorBits(a \div 2, b \div 2, n - 1)

RECURSIVE AndBits(_, _, _)
AndBits(a, b, n) ==
    IF n = 0 THEN 0
    ELSE ((a % 2) * (b % 2)) + 2 * AndBits(a \div 2, b \div 2, n - 1)

\* Nibble tables, evaluated once: entry [a + 1][b + 1] is for nibbles a, b.
XorNib == Array([a \in 1..16 |-> Array([b \in 1..16 |-> XorBits(a - 1, b - 1, 4)])])

AndNib == Array([a \in 1..16 |-> Array([b \in 1..16 |-> AndBits(a - 1, b - 1, 4)])])

Xor16(a, b) ==
    XorNib[(a \div 4096) + 1][(b \div 4096) + 1] * 4096
    + XorNib[((a \div 256) % 16) + 1][((b \div 256) % 16) + 1] * 256
    + XorNib[((a \div 16) % 16) + 1][((b \div 16) % 16) + 1] * 16
    + XorNib[(a % 16) + 1][(b % 16) + 1]

And16(a, b) ==
    AndNib[(a \div 4096) + 1][(b \div 4096) + 1] * 4096
    + AndNib[((a \div 256) % 16) + 1][((b \div 256) % 16) + 1] * 256
    + AndNib[((a \div 16) % 16) + 1][((b \div 16) % 16) + 1] * 16
    + AndNib[(a % 16) + 1][(b % 16) + 1]

\* The word operations compare their operands with the empty tuple first:
\* that only makes the evaluator compute the operands before the result.
XOR(x, y) ==
    IF <<x, y>> = <<>> THEN x
    ELSE <<Xor16(x[1], y[1]), Xor16(x[2], y[2])>>

AND(x, y) ==
    IF <<x, y>> = <<>> THEN x
    ELSE <<And16(x[1], y[1]), And16(x[2], y[2])>>

NOT(x) == <<65535 - x[1], 65535 - x[2]>>

ADD(x, y) ==
    IF <<x, y>> = <<>> THEN x
    ELSE LET lo == x[2] + y[2]
             hi == x[1] + y[1] + (lo \div 65536)
         IN  <<hi % 65536, lo % 65536>>

\* The low 16 bits of the 32-bit value (hi:lo) shifted right by n, 0 <= n < 16.
Shr16(hi, lo, n) == (lo \div (2 ^ n)) + (hi % (2 ^ n)) * (2 ^ (16 - n))

ROTR32(x, n) ==
    IF x = <<>> THEN x
    ELSE IF n < 16 THEN <<Shr16(x[2], x[1], n), Shr16(x[1], x[2], n)>>
    ELSE <<Shr16(x[1], x[2], n - 16), Shr16(x[2], x[1], n - 16)>>

\* x >> n for 0 <= n < 16
SHR32(x, n) == <<x[1] \div (2 ^ n), Shr16(x[1], x[2], n)>>

CH(x, y, z) == XOR(AND(x, y), AND(NOT(x), z))

MAJ(x, y, z) == XOR(XOR(AND(x, y), AND(x, z)), AND(y, z))

EP0(x) == XOR(XOR(ROTR32(x, 2), ROTR32(x, 13)), ROTR32(x, 22))

EP1(x) == XOR(XOR(ROTR32(x, 6), ROTR32(x, 11)), ROTR32(x, 25))

SIG0(x) == XOR(XOR(ROTR32(x, 7), ROTR32(x, 18)), SHR32(x, 3))

SIG1(x) == XOR(XOR(ROTR32(x, 17), ROTR32(x, 19)), SHR32(x, 10))

(***************************************************************************)
(* SHA-256 (FIPS 180-4), as implemented in mobi.c.                         *)
(***************************************************************************)
SHA256_BLOCK_SIZE == 64

SHA256_DIGEST_SIZE == 32

K256 == <<
 <<\H428a,\H2f98>>, <<\H7137,\H4491>>, <<\Hb5c0,\Hfbcf>>, <<\He9b5,\Hdba5>>,
 <<\H3956,\Hc25b>>, <<\H59f1,\H11f1>>, <<\H923f,\H82a4>>, <<\Hab1c,\H5ed5>>,
 <<\Hd807,\Haa98>>, <<\H1283,\H5b01>>, <<\H2431,\H85be>>, <<\H550c,\H7dc3>>,
 <<\H72be,\H5d74>>, <<\H80de,\Hb1fe>>, <<\H9bdc,\H06a7>>, <<\Hc19b,\Hf174>>,
 <<\He49b,\H69c1>>, <<\Hefbe,\H4786>>, <<\H0fc1,\H9dc6>>, <<\H240c,\Ha1cc>>,
 <<\H2de9,\H2c6f>>, <<\H4a74,\H84aa>>, <<\H5cb0,\Ha9dc>>, <<\H76f9,\H88da>>,
 <<\H983e,\H5152>>, <<\Ha831,\Hc66d>>, <<\Hb003,\H27c8>>, <<\Hbf59,\H7fc7>>,
 <<\Hc6e0,\H0bf3>>, <<\Hd5a7,\H9147>>, <<\H06ca,\H6351>>, <<\H1429,\H2967>>,
 <<\H27b7,\H0a85>>, <<\H2e1b,\H2138>>, <<\H4d2c,\H6dfc>>, <<\H5338,\H0d13>>,
 <<\H650a,\H7354>>, <<\H766a,\H0abb>>, <<\H81c2,\Hc92e>>, <<\H9272,\H2c85>>,
 <<\Ha2bf,\He8a1>>, <<\Ha81a,\H664b>>, <<\Hc24b,\H8b70>>, <<\Hc76c,\H51a3>>,
 <<\Hd192,\He819>>, <<\Hd699,\H0624>>, <<\Hf40e,\H3585>>, <<\H106a,\Ha070>>,
 <<\H19a4,\Hc116>>, <<\H1e37,\H6c08>>, <<\H2748,\H774c>>, <<\H34b0,\Hbcb5>>,
 <<\H391c,\H0cb3>>, <<\H4ed8,\Haa4a>>, <<\H5b9c,\Hca4f>>, <<\H682e,\H6ff3>>,
 <<\H748f,\H82ee>>, <<\H78a5,\H636f>>, <<\H84c8,\H7814>>, <<\H8cc7,\H0208>>,
 <<\H90be,\Hfffa>>, <<\Ha450,\H6ceb>>, <<\Hbef9,\Ha3f7>>, <<\Hc671,\H78f2>> >>

\* sha256_ctx after sha256_init.  count is the number of bytes fed so far
\* (the inputs of this program are far below 2^31 bytes); the buffer is not
\* initialised by the code and is never read before it is written.
sha256_init ==
    [state |-> << <<\H6a09,\He667>>, <<\Hbb67,\Hae85>>, <<\H3c6e,\Hf372>>,
                  <<\Ha54f,\Hf53a>>, <<\H510e,\H527f>>, <<\H9b05,\H688c>>,
                  <<\H1f83,\Hd9ab>>, <<\H5be0,\Hcd19>> >>,
     count |-> 0,
     buffer |-> Fill(SHA256_BLOCK_SIZE, 0),
     blocks |-> <<>>]      \* history: the blocks sha256_update compressed

\* Loops are recursive operators; the test of the accumulator against
\* itself at the head of each only makes the evaluator compute it there.
\* The loops of the hash engine take their iterations i .. stop - 1 in
\* order but by halves, which keeps the depth of evaluation logarithmic in
\* the number of iterations; a tuple of subterms compared with the empty
\* tuple likewise only computes the subterms first.

\* w[i] of the message schedule, 16 <= i < 64
ScheduleWord(w, i) ==
    LET s1 == SIG1(At(w, i - 2))
        s0 == SIG0(At(w, i - 15))
    IN  IF <<s1, s0>> = <<>> THEN s1
        ELSE ADD(ADD(ADD(s1, At(w, i - 7)), s0), At(w, i - 16))

\* for (i = 16; i < 64; i++) w[i] = ...
RECURSIVE ExpandW(_, _, _)
ExpandW(w, i, stop) ==
    IF i = stop \/ w # w THEN w
    ELSE IF stop = i + 1 THEN Append(w, ScheduleWord(w, i))
    ELSE ExpandW(ExpandW(w, i, (i + stop) \div 2), (i + stop) \div 2, stop)

\* One iteration of the compression loop on v = <<a, b, c, d, e, f, g, h>>,
\* with t1 and t2 already computed.
Rotate(v, t1, t2) ==
    <<ADD(t1, t2), v[1], v[2], v[3], ADD(v[4], t1), v[5], v[6], v[7]>>

CompressStep(v, k, wi) ==
    LET ep1 == EP1(v[5])
        ch == CH(v[5], v[6], v[7])
        ep0 == EP0(v[1])
        maj == MAJ(v[1], v[2], v[3])
    IN  IF <<ep1, ch, ep0, maj>> = <<>> THEN v
        ELSE Rotate(v, ADD(ADD(ADD(ADD(v[8], ep1), ch), k), wi), ADD(ep0, maj))

\* for (i = 0; i < 64; i++) { t1 = ...; t2 = ...; h = g; ... a = t1 + t2; }
RECURSIVE CompressRounds(_, _, _, _)
CompressRounds(v, w, i, stop) ==
    IF i = stop \/ v # v \/ w # w THEN v
    ELSE IF stop = i + 1 THEN CompressStep(v, At(K256, i), At(w, i))
    ELSE CompressRounds(CompressRounds(v, w, i, (i + stop) \div 2), w,
                        (i + stop) \div 2, stop)

\* ctx->state[k] += the working variables
AddState(state, v) == Array([i \in 1..8 |-> ADD(state[i], v[i])])

\* The 16 big-endian words of a block.
BlockWords(block) ==
    Array([i \in 1..16 |->
             <<At(block, (i - 1) * 4) * 256 + At(block, (i - 1) * 4 + 1),
               At(block, (i - 1) * 4 + 2) * 256 + At(block, (i - 1) * 4 + 3)>>])

\* sha256_transform: the new ctx->state after compressing one 64-byte block.
sha256_transform(state, block) ==
    LET w == ExpandW(BlockWords(block), 16, 64)
        v == CompressRounds(state, w, 0, 64)
    IN  IF <<w, v>> = <<>> THEN state ELSE AddState(state, v)

\* ctx after buffer[idx] = byte and, when that fills the buffer, the transform.
BufferByte(ctx, buf, idx) ==
    IF idx + 1 = SHA256_BLOCK_SIZE
    THEN [ctx EXCEPT !.buffer = buf, !.state = sha256_transform(ctx.state, buf),
                     !.blocks = Append(ctx.blocks, buf)]
    ELSE [ctx EXCEPT !.buffer = buf]

\* The iterations i .. stop - 1 of the byte loop of sha256_update; idx is
\* the buffer position at iteration i.
RECURSIVE UpdateLoop(_, _, _, _, _)
UpdateLoop(ctx, data, i, idx, stop) ==
    IF i = stop \/ ctx # ctx THEN ctx
    ELSE IF stop = i + 1
    THEN BufferByte(ctx, Put(ctx.buffer, idx, At(data, i)), idx)
    ELSE LET mid == (i + stop) \div 2
         IN  UpdateLoop(UpdateLoop(ctx, data, i, idx, mid), data, mid,
                        (idx + (mid - i)) % SHA256_BLOCK_SIZE, stop)

sha256_update(ctx, data) ==
    UpdateLoop([ctx EXCEPT !.count = ctx.count + Len(data)], data, 0,
               ctx.count % 64, Len(data))

\* Variant of LengthBytes: the length field holding the byte count.
LengthBytes_bytes(bits) ==
    <<0, 0, 0, 0, ((bits \div 8) \div 16777216) % 256, ((bits \div 8) \div 65536) % 256,
      ((bits \div 8) \div 256) % 256, (bits \div 8) % 256>>

\* The bit count as 8 big-endian bytes.  bits = count * 8 is below 2^32
\* here, so the four high bytes are 0.
LengthBytes(bits) ==
    <<0, 0, 0, 0, (bits \div 16777216) % 256, (bits \div 65536) % 256,
      (bits \div 256) % 256, bits % 256>>

\* The blocks sha256_final compresses, given idx = count & 0x3F: the idx
\* buffered bytes, 0x80, zeros, and the bit count in the last 8 bytes; two
\* blocks when idx + 1 > 56.
PaddedBlocks(buffer, idx, bits) ==
    IF idx + 1 > 56
    THEN <<SubSeq(buffer, 1, idx) \o <<128>> \o Fill(SHA256_BLOCK_SIZE - (idx + 1), 0),
           Fill(56, 0) \o LengthBytes(bits)>>
    ELSE <<SubSeq(buffer, 1, idx) \o <<128>> \o Fill(56 - (idx + 1), 0)
           \o LengthBytes(bits)>>

FinalBlocks(ctx) == PaddedBlocks(ctx.buffer, ctx.count % 64, ctx.count * 8)

RECURSIVE TransformAll(_, _, _)
TransformAll(state, blocks, k) ==
    IF k > Len(blocks) \/ state # state THEN state
    ELSE TransformAll(sha256_transform(state, blocks[k]), blocks, k + 1)

\* Byte k (0..3) of a word, most significant first.
WordByte(wd, k) ==
    IF k = 0 THEN wd[1] \div 256
    ELSE IF k = 1 THEN wd[1] % 256
    ELSE IF k = 2 THEN wd[2] \div 256
    ELSE wd[2] % 256

\* The digest bytes of the final state, big-endian.
StateBytes(state) ==
    Array([i \in 1..SHA256_DIGEST_SIZE |->
             WordByte(state[((i - 1) \div 4) + 1], (i - 1) % 4)])

\* sha256_final: the 32 digest bytes.
sha256_final(ctx) == StateBytes(TransformAll(ctx.state, FinalBlocks(ctx), 1))

sha256(data) == sha256_final(sha256_update(sha256_init, data))

(***************************************************************************)
(* Constants and error codes of mobi.h.                                    *)
(***************************************************************************)
MOBI_PUBKEY_LEN == 32

MOBI_PUBKEY_HEX_LEN == 64

MOBI_FULL_LEN == 21

MOBI_DISPLAY_LEN == 12

MOBI_EXTENDED_LEN == 15

MOBI_LONG_LEN == 18

MOBI_OK == 0

MOBI_ERR_NULL == -1

MOBI_ERR_INVALID_HEX == -2

MOBI_ERR_INVALID_LEN == -3

MOBI_ERR_INVALID_CHAR == -4

\* A pointer is <<>> when null and <<x>> when it points to x.
NULL == <<>>

Ptr(x) == <<x>>

Deref(p) == p[1]

\* strlen: the number of chars before the terminator.  A string argument is
\* the sequence of its chars, the terminator left out.
strlen(s) == Len(s)

\* isdigit((unsigned char)c) in the C locale
\* The C string in a char array: the chars before the first NUL (all of the
\* array when it holds none).
CStr(arr) ==
    IF \E k \in 1..Len(arr) : arr[k] = 0
    THEN SubSeq(arr, 1, (CHOOSE k \in 1..Len(arr) :
                            arr[k] = 0 /\ \A j \in 1..(k - 1) : arr[j] # 0) - 1)
    ELSE arr

isdigit(c) == c >= 48 /\ c <= 57

(***************************************************************************)
(* Hex utilities.                                                          *)
(***************************************************************************)
hex_char_to_nibble(c) ==
    IF c >= 48 /\ c <= 57 THEN c - 48                \* '0'..'9'
    ELSE IF c >= 97 /\ c <= 102 THEN c - 97 + 10     \* 'a'..'f'
    ELSE IF c >= 65 /\ c <= 70 THEN c - 65 + 10      \* 'A'..'F'
    ELSE -1

\* The for loop of hex_decode from byte i on: [ret, out].
RECURSIVE HexDecodeLoop(_, _, _, _)
HexDecodeLoop(hex, hex_len, out, i) ==
    IF out # out \/ i >= hex_len \div 2 THEN [ret |-> 0, out |-> out]
    ELSE LET hi == hex_char_to_nibble(At(hex, i * 2))
             lo == hex_char_to_nibble(At(hex, i * 2 + 1))
         IN  IF hi < 0 \/ lo < 0 THEN [ret |-> -1, out |-> out]
             ELSE HexDecodeLoop(hex, hex_len, Put(out, i, hi * 16 + lo), i + 1)

\* hex_decode(hex, hex_len, out, out_len): [ret, out], out the buffer after
\* the call (written up to the first bad pair).
hex_decode(hex, hex_len, out, out_len) ==
    IF hex_len % 2 # 0 THEN [ret |-> -1, out |-> out]
    ELSE IF out_len < hex_len \div 2 THEN [ret |-> -1, out |-> out]
    ELSE HexDecodeLoop(hex, hex_len, out, 0)

(***************************************************************************)
(* Big number operations: try_convert_hash.                                *)
(***************************************************************************)
\* One division pass, for (i = 0; i < 10; i++), from byte i on with the
\* running remainder: [work, remainder].
RECURSIVE DivPass(_, _, _)
DivPass(work, remainder, i) ==
    IF <<work, remainder>> = <<>> \/ i = 10
    THEN [work |-> work, remainder |-> remainder]
    ELSE LET current == remainder * 256 + At(work, i)
         IN  DivPass(Put(work, i, current \div 10), current % 10, i + 1)

\* Variant of PrependDigit: the digit stored after the earlier ones,
\* digits[num_digits] = '0' + remainder.
PrependDigit_append(digits, num_digits, remainder) ==
    Array([k \in 1..Len(digits) |->
             IF k = num_digits + 1 THEN 48 + remainder ELSE digits[k]])

\* memmove(digits + 1, digits, num_digits + 1); digits[0] = '0' + remainder
PrependDigit(digits, num_digits, remainder) ==
    Array([k \in 1..Len(digits) |->
             IF k = 1 THEN 48 + remainder
             ELSE IF k - 1 <= num_digits + 1 THEN digits[k - 1]
             ELSE digits[k]])

\* The while (1) loop of try_convert_hash: [digits, num_digits].
RECURSIVE ExtractDigits(_, _, _)
ExtractDigits(work, digits, num_digits) ==
    IF <<work, digits>> = <<>> \/ \A i \in 0..9 : At(work, i) = 0
    THEN [digits |-> digits, num_digits |-> num_digits]
    ELSE LET p == DivPass(work, 0, 0)
         IN  ExtractDigits(p.work, PrependDigit(digits, num_digits, p.remainder),
                           num_digits + 1)

\* Variant of RejectsDigits: the test written num_digits >= 21.
RejectsDigits_ge21(num_digits) == num_digits >= 21

\* if (num_digits > 21) return 0;
RejectsDigits(num_digits) == num_digits > 21

\* Variant of WritePadded: the memset of the leading zeros left out.
WritePadded_nopad(out, digits, num_digits) ==
    LET pad == 21 - num_digits
    IN  Array([k \in 1..Len(out) |->
                 IF k - 1 < pad THEN out[k]
                 ELSE IF k - 1 < pad + num_digits THEN At(digits, k - 1 - pad)
                 ELSE IF k - 1 = 21 THEN 0
                 ELSE out[k]])

\* The accept branch: memset(out, '0', pad); memcpy(out + pad, digits,
\* num_digits); out[21] = '\0'.
WritePadded(out, digits, num_digits) ==
    LET pad == 21 - num_digits
    IN  Array([k \in 1..Len(out) |->
                 IF k - 1 < pad THEN 48
                 ELSE IF k - 1 < pad + num_digits THEN At(digits, k - 1 - pad)
                 ELSE IF k - 1 = 21 THEN 0
                 ELSE out[k]])

\* Variant of try_convert_hash: the bound taken as 22 digits, written over
\* the 22 bytes of the field.
try_convert_hash_22digits(hash, out) ==
    LET work == <<0>> \o SubSeq(hash, 1, 9)
        e == ExtractDigits(work, Fill(24, 0), 0)
        digits == IF e.num_digits = 0 THEN Put(e.digits, 0, 48) ELSE e.digits
        num_digits == IF e.num_digits = 0 THEN 1 ELSE e.num_digits
        pad == 22 - num_digits
    IN  IF num_digits > 22 THEN [ret |-> 0, out |-> out]
        ELSE [ret |-> 1,
              out |-> Array([k \in 1..Len(out) |->
                               IF k - 1 < pad THEN 48 ELSE At(digits, k - 1 - pad)])]

\* Variant of try_convert_hash: a value of 22 digits is rejected only after
\* its low 21 digits, the value modulo 10^21, have been written to out.
try_convert_hash_writes_on_reject(hash, out) ==
    LET work == <<0>> \o SubSeq(hash, 1, 9)
        e == ExtractDigits(work, Fill(24, 0), 0)
        digits == IF e.num_digits = 0 THEN Put(e.digits, 0, 48) ELSE e.digits
        num_digits == IF e.num_digits = 0 THEN 1 ELSE e.num_digits
    IN  IF RejectsDigits(num_digits)
        THEN [ret |-> 0,
              out |-> WritePadded(out, SubSeq(digits, num_digits - 20, num_digits), 21)]
        ELSE [ret |-> 1, out |-> WritePadded(out, digits, num_digits)]

\* try_convert_hash(hash, out): [ret, out], out the caller's buffer after
\* the call.
try_convert_hash(hash, out) ==
    LET work == <<0>> \o SubSeq(hash, 1, 9)
        e == ExtractDigits(work, Fill(24, 0), 0)
        digits == IF e.num_digits = 0 THEN Put(e.digits, 0, 48) ELSE e.digits
        num_digits == IF e.num_digits = 0 THEN 1 ELSE e.num_digits
    IN  IF RejectsDigits(num_digits) THEN [ret |-> 0, out |-> out]
        ELSE [ret |-> 1, out |-> WritePadded(out, digits, num_digits)]

(***************************************************************************)
(* Core API: mobi_derive_bytes and mobi_derive.                            *)
(***************************************************************************)
\* Variant of MOBI_MAX_ROUNDS: one round more.
MOBI_MAX_ROUNDS_257 == 256 + 1

MOBI_MAX_ROUNDS == 256

\* Variant of RoundMessage: round 0 too stores its round byte and hashes the
\* 33 bytes of input.
RoundMessage_appends_round0(round, pubkey, input) ==
    LET inp == Put(input, MOBI_PUBKEY_LEN, round % 256)
    IN  [msg |-> SubSeq(inp, 1, MOBI_PUBKEY_LEN + 1), input |-> inp]

\* Variant of RoundMessage: round 0 hashes the 33 bytes of input, the last
\* of them uninitialised.
RoundMessage_uninit(round, pubkey, input) ==
    IF round = 0
    THEN [msg |-> SubSeq(input, 1, MOBI_PUBKEY_LEN + 1), input |-> input]
    ELSE LET inp == Put(input, MOBI_PUBKEY_LEN, round % 256)
         IN  [msg |-> SubSeq(inp, 1, MOBI_PUBKEY_LEN + 1), input |-> inp]

\* The message of one round (lines 307-312): round 0 hashes the caller's
\* pubkey, a later round writes (uint8_t)round into input[32] and hashes the
\* 33 bytes of input.  [msg, input]
RoundMessage(round, pubkey, input) ==
    IF round = 0
    THEN [msg |-> SubSeq(Deref(pubkey), 1, MOBI_PUBKEY_LEN), input |-> input]
    ELSE LET inp == Put(input, MOBI_PUBKEY_LEN, round % 256)
         IN  [msg |-> SubSeq(inp, 1, MOBI_PUBKEY_LEN + 1), input |-> inp]

\* memcpy(dst, src, n); dst[n] = '\0';
CopyPrefix(dst, src, n) ==
    Array([k \in 1..Len(dst) |->
             IF k <= n THEN src[k] ELSE IF k = n + 1 THEN 0 ELSE dst[k]])

\* Variant of ExtractPrefixes: lng copied with the length of extended.
ExtractPrefixes_lng_short(out) ==
    [out EXCEPT !.display = CopyPrefix(out.display, out.full, MOBI_DISPLAY_LEN),
                !.extended = CopyPrefix(out.extended, out.full, MOBI_EXTENDED_LEN),
                !.lng = CopyPrefix(out.lng, out.full, MOBI_EXTENDED_LEN)]

\* The success branch of the loop (lines 316-323): the three prefix forms
\* are copied from out->full.
ExtractPrefixes(out) ==
    [out EXCEPT !.display = CopyPrefix(out.display, out.full, MOBI_DISPLAY_LEN),
                !.extended = CopyPrefix(out.extended, out.full, MOBI_EXTENDED_LEN),
                !.lng = CopyPrefix(out.lng, out.full, MOBI_LONG_LEN)]

\* Variant of ExhaustedReturn: the loop falls through to a success return.
ExhaustedReturn_ok == MOBI_OK

\* The return after the loop (line 333).
ExhaustedReturn == MOBI_ERR_INVALID_LEN

\* What ret holds while no call has returned (no function returns it).
NoValue == MOBI_OK + 1

\* mobi_derive_bytes up to the loop (lines 287-296), with g the byte the
\* uninitialised locals hold: a null argument returns at once, otherwise
\* the key is copied into input (input[32] is left uninitialised).
DeriveBytesEntry(pubkey, out, g) ==
    IF pubkey = NULL \/ out = NULL
    THEN [pc |-> "ret", ret |-> MOBI_ERR_NULL, input |-> Fill(MOBI_PUBKEY_LEN + 1, g)]
    ELSE [pc |-> "loop", ret |-> NoValue,
          input |-> SubSeq(Deref(pubkey), 1, MOBI_PUBKEY_LEN) \o <<g>>]

\* Variant of DeriveGate: the string is decoded before its length is
\* checked.
DeriveGate_decode_first(pubkey_hex, out, local) ==
    IF pubkey_hex = NULL \/ out = NULL
    THEN [ret |-> MOBI_ERR_NULL, call_core |-> FALSE, pubkey |-> local]
    ELSE LET hex_len == strlen(Deref(pubkey_hex))
             d == hex_decode(Deref(pubkey_hex), hex_len, local, MOBI_PUBKEY_LEN)
         IN  IF d.ret # 0
             THEN [ret |-> MOBI_ERR_INVALID_HEX, call_core |-> FALSE, pubkey |-> d.out]
             ELSE IF hex_len # MOBI_PUBKEY_HEX_LEN
             THEN [ret |-> MOBI_ERR_INVALID_LEN, call_core |-> FALSE, pubkey |-> d.out]
             ELSE [ret |-> MOBI_OK, call_core |-> TRUE, pubkey |-> d.out]

\* mobi_derive up to the call of mobi_derive_bytes (lines 337-351), with
\* local the uninitialised pubkey[32]: [ret, call_core, pubkey].
DeriveGate(pubkey_hex, out, local) ==
    IF pubkey_hex = NULL \/ out = NULL
    THEN [ret |-> MOBI_ERR_NULL, call_core |-> FALSE, pubkey |-> local]
    ELSE LET hex_len == strlen(Deref(pubkey_hex))
         IN  IF hex_len # MOBI_PUBKEY_HEX_LEN
             THEN [ret |-> MOBI_ERR_INVALID_LEN, call_core |-> FALSE, pubkey |-> local]
             ELSE LET d == hex_decode(Deref(pubkey_hex), hex_len, local, MOBI_PUBKEY_LEN)
                  IN  IF d.ret # 0
                      THEN [ret |-> MOBI_ERR_INVALID_HEX, call_core |-> FALSE,
                            pubkey |-> d.out]
                      ELSE [ret |-> MOBI_OK, call_core |-> TRUE, pubkey |-> d.out]

(***************************************************************************)
(* Formatting API.                                                         *)
(***************************************************************************)
MOBI_FULL_FMT_LEN == 27

MOBI_DISPLAY_FMT_LEN == 15

MOBI_EXTENDED_FMT_LEN == 19

MOBI_LONG_FMT_LEN == 23

\* What "%.3s" prints for the argument s + off: the chars from s[off] up to
\* the first NUL, three at most.
RECURSIVE Precision3(_, _, _)
Precision3(s, off, n) ==
    IF n = 3 \/ off + n >= Len(s) \/ At(s, off + n) = 0 THEN <<>>
    ELSE <<At(s, off + n)>> \o Precision3(s, off, n + 1)

\* sprintf(out, "%.3s-%.3s-...", s, s + 3, ...) with groups arguments: the
\* characters printed.
RECURSIVE HyphenGroups(_, _, _)
HyphenGroups(s, k, groups) ==
    IF k = groups - 1 THEN Precision3(s, 3 * k, 0)
    ELSE Precision3(s, 3 * k, 0) \o <<45>> \o HyphenGroups(s, k + 1, groups)

\* sprintf's effect on the bytes at out: the characters and a NUL.
SprintfInto(buf, chars) ==
    Array([k \in 1..Len(buf) |->
             IF k <= Len(chars) THEN chars[k]
             ELSE IF k = Len(chars) + 1 THEN 0
             ELSE buf[k]])

\* mobi_format_display(mobi, out), buf the bytes at out: [ret, buf]
mobi_format_display(mobi, out, buf) ==
    IF mobi = NULL \/ out = NULL THEN [ret |-> MOBI_ERR_NULL, buf |-> buf]
    ELSE [ret |-> MOBI_OK,
          buf |-> SprintfInto(buf, HyphenGroups(Deref(mobi).display, 0, 4))]

mobi_format_extended(mobi, out, buf) ==
    IF mobi = NULL \/ out = NULL THEN [ret |-> MOBI_ERR_NULL, buf |-> buf]
    ELSE [ret |-> MOBI_OK,
          buf |-> SprintfInto(buf, HyphenGroups(Deref(mobi).extended, 0, 5))]

mobi_format_full(mobi, out, buf) ==
    IF mobi = NULL \/ out = NULL THEN [ret |-> MOBI_ERR_NULL, buf |-> buf]
    ELSE [ret |-> MOBI_OK,
          buf |-> SprintfInto(buf, HyphenGroups(Deref(mobi).full, 0, 7))]

\* The fields of mobi_t the library has a format function for; lng has none.
FormattedFields == {"display", "extended", "full"}

\* The format function of a field.
FormatField(field, mobi, out, buf) ==
    CASE field = "display" -> mobi_format_display(mobi, out, buf)
      [] field = "extended" -> mobi_format_extended(mobi, out, buf)
      [] field = "full" -> mobi_format_full(mobi, out, buf)

(***************************************************************************)
(* Parsing API: mobi_normalize.                                            *)
(***************************************************************************)
\* Variant of NormalizeLoop: the loop bound taken one byte short,
\* digit_count < out_len - 2.
RECURSIVE NormalizeLoop_short(_, _, _, _, _)
NormalizeLoop_short(input, mem, out_len, i, digit_count) ==
    IF ~(i < strlen(input) /\ (out_len < 2 \/ digit_count < out_len - 2))
    THEN [ret |-> digit_count, mem |-> Put(mem, digit_count, 0),
          wrote |-> digit_count + 1]
    ELSE IF isdigit(At(input, i))
    THEN NormalizeLoop_short(input, Put(mem, digit_count, At(input, i)), out_len,
                             i + 1, digit_count + 1)
    ELSE IF At(input, i) # 45 /\ At(input, i) # 32 /\ At(input, i) # 46
            /\ At(input, i) # 40 /\ At(input, i) # 41
    THEN [ret |-> MOBI_ERR_INVALID_CHAR, mem |-> mem, wrote |-> digit_count]
    ELSE NormalizeLoop_short(input, mem, out_len, i + 1, digit_count)

\* The for loop of mobi_normalize from input[i] on.  mem is the memory at
\* out: the caller's buffer followed by the bytes after it.  The bound
\* out_len - 1 is a size_t: for out_len = 0 it is SIZE_MAX, which no digit
\* count reaches.  wrote is one past the highest index written.
RECURSIVE NormalizeLoop(_, _, _, _, _)
NormalizeLoop(input, mem, out_len, i, digit_count) ==
    IF ~(i < strlen(input) /\ (out_len = 0 \/ digit_count < out_len - 1))
    THEN [ret |-> digit_count, mem |-> Put(mem, digit_count, 0),
          wrote |-> digit_count + 1]
    ELSE IF isdigit(At(input, i))
    THEN NormalizeLoop(input, Put(mem, digit_count, At(input, i)), out_len,
                       i + 1, digit_count + 1)
    ELSE IF At(input, i) # 45 /\ At(input, i) # 32 /\ At(input, i) # 46
            /\ At(input, i) # 40 /\ At(input, i) # 41     \* - space . ( )
    THEN [ret |-> MOBI_ERR_INVALID_CHAR, mem |-> mem, wrote |-> digit_count]
    ELSE NormalizeLoop(input, mem, out_len, i + 1, digit_count)

\* mobi_normalize(input, out, out_len): [ret, mem, wrote]
mobi_normalize(input, out, mem, out_len) ==
    IF input = NULL \/ out = NULL
    THEN [ret |-> MOBI_ERR_NULL, mem |-> mem, wrote |-> 0]
    ELSE NormalizeLoop(Deref(input), mem, out_len, 0, 0)

\* Variant of ValidateLoop: the last character is not looked at.
RECURSIVE ValidateLoop_skips_last(_, _, _)
ValidateLoop_skips_last(mobi, len, i) ==
    IF ~(i < len - 1) THEN 1
    ELSE IF ~isdigit(At(mobi, i)) THEN 0
    ELSE ValidateLoop_skips_last(mobi, len, i + 1)

\* The for loop of mobi_validate from mobi[i] on, and the return after it.
RECURSIVE ValidateLoop(_, _, _)
ValidateLoop(mobi, len, i) ==
    IF ~(i < len) THEN 1
    ELSE IF ~isdigit(At(mobi, i)) THEN 0
    ELSE ValidateLoop(mobi, len, i + 1)

\* mobi_validate(mobi): 1 or 0
mobi_validate(mobi) ==
    IF mobi = NULL THEN 0
    ELSE LET len == strlen(Deref(mobi))
         IN  IF len # 12 /\ len # 15 /\ len # 18 /\ len # 21 THEN 0
             ELSE ValidateLoop(Deref(mobi), len, 0)

(***************************************************************************)
(* Inputs of the model.                                                    *)
(***************************************************************************)
\* Calls of the derive functions in one run of the caller.
MaxCalls == 2

\* How many of the keys of Keys the caller uses.
NumKeys == 3

\* Longest string given to mobi_normalize; buffers go up to MaxInLen + 1.
MaxInLen == 4

\* Rounds per key whose digests are computed ahead (see Sha256Cache).
CacheRounds == 5

\* The all-zero key and the "abandon" key of the tests (test_mobi.c:49, 83),
\* 32 bytes 0x11 (accepted in round 0 with a leading zero digit), and
\* 32 bytes 0x08.
Keys ==
    << Fill(32, 0),
       << \H17, \H16, \H2c, \H92, \H1d, \Hc4, \Hd2, \H51,
          \H8f, \H9a, \H10, \H1d, \Hb3, \H36, \H95, \Hdf,
          \H1a, \Hfb, \H56, \Hab, \H82, \Hf5, \Hff, \H3e,
          \H5d, \Ha6, \Hee, \Hc3, \Hca, \H5c, \Hd9, \H17 >>,
       Fill(32, 17),
       Fill(32, 8),
       Fill(32, 12) >>

\* 10^21 = 0x3635C9ADC5DEA00000 as 9 big-endian bytes.
TenPow21 == << \H36, \H35, \Hc9, \Had, \Hc5, \Hde, \Ha0, \H00, \H00 >>

\* SHA-256 digests are not enumerable: a key all of whose 256 rounds reject
\* exists with overwhelming likelihood but cannot be exhibited (a round
\* rejects with probability 1 - 10^21/2^72, so one key exhausts with
\* probability about 3e-27).  Besides sha256 itself the sampler is therefore
\* run against stand-in digest functions, each a function of the message
\* alone, that put the first accepted round at 0, 1, 255 or nowhere (256):
\* the round of a message is 0 for 32 bytes and its last byte otherwise;
\* the accepted round yields the digest sample \o padding, an even rejected
\* round yields exactly 10^21 and an odd one 2^72 - 1.
StubMaxSample == << \H36, \H35, \Hc9, \Had, \Hc5, \Hde, \H9f, \Hff, \Hff >>

StubSamples == { Fill(9, 0), << 0, 0, 0, 0, 0, 0, 0, 1, 7 >>, StubMaxSample }

StubFns ==
    { [kind |-> "stub", accept |-> a, sample |-> v] :
        a \in {0, 1}, v \in StubSamples }
    \cup { [kind |-> "stub", accept |-> 255, sample |-> StubMaxSample],
           [kind |-> "stub", accept |-> 256, sample |-> Fill(9, 0)] }

Sha256Fn == [kind |-> "sha256", accept |-> 0, sample |-> <<>>]

HashFns == {Sha256Fn} \cup StubFns

StubDigest(fn, data) ==
    LET r == IF Len(data) = MOBI_PUBKEY_LEN THEN 0 ELSE data[Len(data)]
    IN  IF r = fn.accept THEN fn.sample \o Fill(23, 170)
        ELSE IF r % 2 = 0 THEN TenPow21 \o Fill(23, 0)
        ELSE Fill(32, 255)

\* The digests sha256 gives for the first rounds of the model's keys,
\* computed once.
Sha256Cache ==
    LET msgs == { IF r = 0 THEN Keys[k] ELSE Keys[k] \o <<r>> :
                    k \in 1..Len(Keys), r \in 0..CacheRounds }
    IN  [d \in msgs |-> sha256(d)]

\* The digest of data under fn; for "sha256" it is sha256(data).
Digest(fn, data) ==
    IF fn.kind = "sha256"
    THEN IF data \in DOMAIN Sha256Cache THEN Sha256Cache[data] ELSE sha256(data)
    ELSE StubDigest(fn, data)

\* mobi_derive_bytes from round on, run to its return: [ret, out].  fn is
\* the digest function in force.
RECURSIVE DeriveLoop(_, _, _, _, _)
DeriveLoop(fn, pubkey, out, input, round) ==
    IF ~(round < MOBI_MAX_ROUNDS) THEN [ret |-> ExhaustedReturn, out |-> out]
    ELSE LET rm == RoundMessage(round, pubkey, input)
             t == try_convert_hash(Digest(fn, rm.msg), out.full)
         IN  IF t.ret # 0
             THEN [ret |-> MOBI_OK, out |-> ExtractPrefixes([out EXCEPT !.full = t.out])]
             ELSE DeriveLoop(fn, pubkey, [out EXCEPT !.full = t.out], rm.input, round + 1)

\* mobi_derive_bytes(pubkey, out) as one call, out holding `before`: [ret, out]
mobi_derive_bytes(fn, pubkey, out, before, g) ==
    LET e == DeriveBytesEntry(pubkey, out, g)
    IN  IF e.pc = "ret" THEN [ret |-> e.ret, out |-> before]
        ELSE DeriveLoop(fn, pubkey, before, e.input, 0)

ActiveKeys(fn) ==
    IF fn.kind = "sha256" THEN { Keys[k] : k \in 1..NumKeys } ELSE { Keys[1] }

\* Hex encoding of a byte string, lower or upper case.
HexDigit(n, upper) == IF n < 10 THEN 48 + n ELSE (IF upper THEN 65 ELSE 97) + n - 10

HexOf(bytes, upper) ==
    Array([k \in 1..(2 * Len(bytes)) |->
             LET b == bytes[(k + 1) \div 2]
             IN  HexDigit(IF k % 2 = 1 THEN b \div 16 ELSE b % 16, upper)])

\* Characters next to the hex ranges and a few others: / : @ G ` g space x
BadHexChars == {47, 58, 64, 71, 96, 103, 32, 120}

\* Malformed key strings: wrong lengths, a bad character at either end or
\* inside, and both at once.
MalformedHex ==
    LET base == HexOf(Keys[2], FALSE)
    IN  { <<>>, SubSeq(base, 1, 62), SubSeq(base, 1, 63),
          base \o <<48>>, base \o <<48, 48>>,
          Put(SubSeq(base, 1, 63), 0, 103), Put(base \o <<48, 48>>, 65, 103) }
        \cup { Put(base, p, c) : p \in {0, 1, 32, 63}, c \in BadHexChars }

HexInputs(fn) ==
    { HexOf(k, u) : k \in ActiveKeys(fn), u \in BOOLEAN } \cup MalformedHex

\* Bytes the uninitialised locals of a call may hold.
GarbageBytes == {0, 255}

\* A mobi_t the caller has not initialised: every byte is c.
GarbageOut(c) ==
    [full |-> Fill(MOBI_FULL_LEN + 1, c),
     display |-> Fill(MOBI_DISPLAY_LEN + 1, c),
     extended |-> Fill(MOBI_EXTENDED_LEN + 1, c),
     lng |-> Fill(MOBI_LONG_LEN + 1, c)]

\* 'X' and '9'
InitialOut == { GarbageOut(88), GarbageOut(57) }

\* Strings for mobi_normalize: strings of '1' and '-' up to MaxInLen chars,
\* as they are or with one char replaced by a probe: the digits 0 and 9, the
\* five separators, and / : x , + _
Probes == {48, 57, 45, 32, 46, 40, 41, 47, 58, 120, 44, 43, 95}

NormStrings ==
    UNION { UNION { {Array(b)} \cup { Put(Array(b), p, c) : p \in 0..(n - 1), c \in Probes }
                    : b \in [1..n -> {49, 45}] }
            : n \in 0..MaxInLen }

(***************************************************************************)
(* State.                                                                  *)
(***************************************************************************)
VARIABLES
    hashfn,      \* the digest function in force: "sha256" or a stand-in
    pc,          \* "idle", "loop" (in the for loop of mobi_derive_bytes), "ret"
    calls,       \* calls made so far
    fn,          \* the API function called: "mobi_derive", "mobi_derive_bytes"
    pubkey_hex,  \* argument of mobi_derive
    out_arg,     \* the out argument: NULL or Ptr("m"), the address of m
    pubkey,      \* the pubkey argument of mobi_derive_bytes: NULL or a
                 \* pointer to bytes
    m,           \* the caller's mobi_t
    input,       \* local input[33] of mobi_derive_bytes
    hash,        \* local hash[32] of mobi_derive_bytes
    round,       \* loop variable of mobi_derive_bytes
    ret,         \* value returned by the call
    core,        \* history: mobi_derive_bytes was entered by this call
    m0,          \* history: m when the call was made
    nhash,       \* history: sha256 calls made by this call
    msg,         \* history: the message of the last sha256 call
    history,     \* history: the calls that ran the loop, [key, ret, m, m0]
    norm,        \* the mobi_normalize call: arguments and result
    unit,        \* a call of one library function on its own: arguments
                 \* and result
    threads      \* concurrent calls of mobi_derive_bytes: the threads and
                 \* the memory of their locals

vars == <<hashfn, pc, calls, fn, pubkey_hex, out_arg, pubkey, m, input, hash,
          round, ret, core, m0, nhash, msg, history, norm, unit, threads>>

NormIdle == [input |-> NULL, out |-> NULL, out_len |-> 0, mem |-> <<>>,
             ret |-> NoValue, wrote |-> 0, done |-> FALSE, crashed |-> FALSE]

UnitIdle == [done |-> FALSE]

ThreadsIdle == [thr |-> <<>>, mem |-> <<>>]

Init ==
    /\ hashfn \in HashFns
    /\ pc = "idle"
    /\ calls = 0
    /\ fn = "none"
    /\ pubkey_hex = NULL
    /\ out_arg = NULL
    /\ pubkey = NULL
    /\ m \in InitialOut
    /\ input = <<>>
    /\ hash = <<>>
    /\ round = 0
    /\ ret = NoValue
    /\ core = FALSE
    /\ m0 = m
    /\ nhash = 0
    /\ msg = <<>>
    /\ history = <<>>
    /\ norm = NormIdle
    /\ unit = UnitIdle
    /\ threads = ThreadsIdle

\* The part of a call of mobi_derive_bytes before the loop.
EnterCore(pk, outp, g) ==
    LET e == DeriveBytesEntry(pk, outp, g)
    IN  /\ core' = TRUE
        /\ pubkey' = pk
        /\ pc' = e.pc
        /\ ret' = e.ret
        /\ input' = e.input
        /\ hash' = Fill(SHA256_DIGEST_SIZE, g)
        /\ round' = 0

CallCommon(f, hex, outp) ==
    /\ pc = "idle"
    /\ calls < MaxCalls
    /\ calls' = calls + 1
    /\ fn' = f
    /\ pubkey_hex' = hex
    /\ out_arg' = outp
    /\ m0' = m
    /\ nhash' = 0
    /\ msg' = <<>>
    /\ UNCHANGED <<hashfn, m, history, norm, unit, threads>>

\* The caller calls mobi_derive(hex, outp).
CallDerive ==
    \E hex \in { Ptr(h) : h \in HexInputs(hashfn) } \cup {NULL},
       outp \in {Ptr("m"), NULL}, g \in GarbageBytes :
        /\ CallCommon("mobi_derive", hex, outp)
        /\ LET gate == DeriveGate(hex, outp, Fill(MOBI_PUBKEY_LEN, g))
           IN  IF gate.call_core
               THEN EnterCore(Ptr(gate.pubkey), outp, g)
               ELSE /\ core' = FALSE
                    /\ pubkey' = NULL
                    /\ pc' = "ret"
                    /\ ret' = gate.ret
                    /\ input' = <<>>
                    /\ hash' = <<>>
                    /\ round' = 0

\* The caller calls mobi_derive_bytes(pk, outp).
CallDeriveBytes ==
    \E pk \in { Ptr(k) : k \in ActiveKeys(hashfn) } \cup {NULL},
       outp \in {Ptr("m"), NULL}, g \in GarbageBytes :
        /\ CallCommon("mobi_derive_bytes", NULL, outp)
        /\ EnterCore(pk, outp, g)

\* One iteration of the for loop of mobi_derive_bytes (lines 306-327).
Round ==
    /\ pc = "loop"
    /\ round < MOBI_MAX_ROUNDS
    /\ \E rm \in {RoundMessage(round, pubkey, input)} :
       \E digest \in {Digest(hashfn, rm.msg)} :
       \E t \in {try_convert_hash(digest, m.full)} :
           /\ input' = rm.input
           /\ msg' = rm.msg
           /\ hash' = digest
           /\ nhash' = nhash + 1
           /\ IF t.ret # 0
              THEN /\ m' = ExtractPrefixes([m EXCEPT !.full = t.out])
                   /\ ret' = MOBI_OK
                   /\ pc' = "ret"
                   /\ round' = round
                   /\ history' = Append(history,
                          [key |-> Deref(pubkey), ret |-> MOBI_OK, m |-> m', m0 |-> m0])
              ELSE /\ m' = [m EXCEPT !.full = t.out]
                   /\ ret' = ret
                   /\ pc' = "loop"
                   /\ round' = round + 1
                   /\ history' = history
    /\ UNCHANGED <<hashfn, calls, fn, pubkey_hex, out_arg, pubkey, core, m0, norm, unit, threads>>

\* The loop of mobi_derive_bytes ends without an accepted round (lines 329-333).
Exhausted ==
    /\ pc = "loop"
    /\ ~(round < MOBI_MAX_ROUNDS)
    /\ ret' = ExhaustedReturn
    /\ pc' = "ret"
    /\ history' = Append(history,
           [key |-> Deref(pubkey), ret |-> ExhaustedReturn, m |-> m, m0 |-> m0])
    /\ UNCHANGED <<hashfn, calls, fn, pubkey_hex, out_arg, pubkey, m, input, hash,
                   round, core, m0, nhash, msg, norm, unit, threads>>

\* The call returns to the caller; its arguments and locals are gone.
Return ==
    /\ pc = "ret"
    /\ pc' = "idle"
    /\ fn' = "none"
    /\ pubkey_hex' = NULL
    /\ out_arg' = NULL
    /\ pubkey' = NULL
    /\ input' = <<>>
    /\ hash' = <<>>
    /\ round' = 0
    /\ ret' = NoValue
    /\ core' = FALSE
    /\ m0' = m
    /\ nhash' = 0
    /\ msg' = <<>>
    /\ UNCHANGED <<hashfn, calls, m, history, norm, unit, threads>>

Next == CallDerive \/ CallDeriveBytes \/ Round \/ Exhausted \/ Return

Spec == Init /\ [][Next]_vars

\* A running call keeps running: the loop is synchronous code.  This is weak
\* fairness of the loop's steps, WF_vars(Round \/ Exhausted), with
\* ENABLED <<Round \/ Exhausted>>_vars written as the state predicate it
\* equals: in the loop one of the two steps is always possible, and each
\* changes nhash or pc.
FairSpec ==
    Spec /\ ([]<>(pc # "loop") \/ []<><<Round \/ Exhausted>>_vars)

(***************************************************************************)
(* mobi_normalize as a specification of its own: Init draws the arguments, *)
(* the one action makes the call.                                          *)
(***************************************************************************)
\* The memory at out for a buffer of out_len bytes: the buffer and the
\* MaxInLen + 1 bytes after it, all holding 0xAA.
NormMemory(out_len) == Fill(out_len + MaxInLen + 1, 170)

NormCalls ==
    { [input |-> i, out |-> o, out_len |-> n, mem |-> NormMemory(n),
       ret |-> NoValue, wrote |-> 0, done |-> FALSE, crashed |-> FALSE] :
        i \in { Ptr(x) : x \in NormStrings } \cup {NULL},
        o \in {Ptr("buf"), NULL},
        n \in 0..(MaxInLen + 1) }

InitNorm ==
    /\ hashfn = Sha256Fn
    /\ pc = "idle"
    /\ calls = 0
    /\ fn = "none"
    /\ pubkey_hex = NULL
    /\ out_arg = NULL
    /\ pubkey = NULL
    /\ m = GarbageOut(88)
    /\ input = <<>>
    /\ hash = <<>>
    /\ round = 0
    /\ ret = NoValue
    /\ core = FALSE
    /\ m0 = m
    /\ nhash = 0
    /\ msg = <<>>
    /\ history = <<>>
    /\ norm \in NormCalls
    /\ unit = UnitIdle
    /\ threads = ThreadsIdle

\* The call mobi_normalize(input, out, out_len).  A write past the buffer
\* is undefined behaviour: the call then either goes on as compiled, with
\* the bytes after the buffer overwritten, or crashes.
NormalizeCall ==
    /\ ~norm.done
    /\ \E r \in {mobi_normalize(norm.input, norm.out, norm.mem, norm.out_len)} :
       \E c \in (IF r.wrote > norm.out_len THEN BOOLEAN ELSE {FALSE}) :
           norm' = [norm EXCEPT !.ret = r.ret, !.mem = r.mem, !.wrote = r.wrote,
                                !.done = TRUE, !.crashed = c]
    /\ UNCHANGED <<hashfn, pc, calls, fn, pubkey_hex, out_arg, pubkey, m, input,
                   hash, round, ret, core, m0, nhash, msg, history, unit, threads>>

NextNorm == NormalizeCall

SpecNorm == InitNorm /\ [][NextNorm]_vars

(***************************************************************************)
(* The other library functions, each as a specification of its own: Init   *)
(* draws the arguments, the one action makes the call.                     *)
(***************************************************************************)
deriveVars == <<hashfn, pc, calls, fn, pubkey_hex, out_arg, pubkey, m, input,
                hash, round, ret, core, m0, nhash, msg, history>>

\* No derive call is made.
DeriveQuiet ==
    /\ hashfn = Sha256Fn
    /\ pc = "idle"
    /\ calls = 0
    /\ fn = "none"
    /\ pubkey_hex = NULL
    /\ out_arg = NULL
    /\ pubkey = NULL
    /\ m = GarbageOut(88)
    /\ input = <<>>
    /\ hash = <<>>
    /\ round = 0
    /\ ret = NoValue
    /\ core = FALSE
    /\ m0 = m
    /\ nhash = 0
    /\ msg = <<>>
    /\ history = <<>>

\* Strings for mobi_validate: digit strings of the valid lengths and of the
\* lengths around them, each also with one character (first, middle, last)
\* replaced by another digit, a separator, a letter or a neighbour of the
\* digits in ASCII; and the formatted display string of the tests.
ValidateLens == {0, 1} \cup (11..22)

ValidateProbes == {57, 45, 32, 46, 40, 97, 47, 58}

ValidateStrings ==
    UNION { {Fill(n, 48)} \cup
            { Put(Fill(n, 48), p, c) : p \in {0, n \div 2, n - 1} \cap (0..(n - 1)),
                                       c \in ValidateProbes }
            : n \in ValidateLens }
    \cup { <<54, 53, 48, 45, 48, 55, 51, 45, 48, 52, 55, 45, 52, 51, 53>> }

ValidateCalls ==
    { [op |-> "mobi_validate", arg |-> a, ret |-> NoValue, done |-> FALSE] :
        a \in { Ptr(x) : x \in ValidateStrings } \cup {NULL} }

InitValidate ==
    /\ DeriveQuiet
    /\ norm = NormIdle
    /\ threads = ThreadsIdle
    /\ unit \in ValidateCalls

\* The call mobi_validate(arg).
ValidateCall ==
    /\ ~unit.done
    /\ unit' = [unit EXCEPT !.ret = mobi_validate(unit.arg), !.done = TRUE]
    /\ UNCHANGED <<deriveVars, norm, threads>>

NextValidate == ValidateCall

SpecValidate == InitValidate /\ [][NextValidate]_vars

\* The identifiers the format functions are applied to: those derived from
\* the model's keys, and the three stand-in samples (0, 263, 10^21 - 1).
Identifiers ==
    { mobi_derive_bytes(Sha256Fn, Ptr(Keys[k]), Ptr("m"), GarbageOut(88), 0).out :
        k \in 1..Len(Keys) }
    \cup { mobi_derive_bytes(f, Ptr(Keys[1]), Ptr("m"), GarbageOut(88), 0).out :
             f \in { x \in StubFns : x.accept = 0 } }

FieldNames == {"display", "extended", "lng", "full"}

FieldOf(id, field) ==
    CASE field = "display" -> id.display
      [] field = "extended" -> id.extended
      [] field = "lng" -> id.lng
      [] field = "full" -> id.full

\* The buffer sizes mobi.h asks for: the formatted length + 1.
FormatBufLen(field) ==
    CASE field = "display" -> MOBI_DISPLAY_FMT_LEN + 1
      [] field = "extended" -> MOBI_EXTENDED_FMT_LEN + 1
      [] field = "lng" -> MOBI_LONG_FMT_LEN + 1
      [] field = "full" -> MOBI_FULL_FMT_LEN + 1

FormatCalls ==
    { [op |-> "format", field |-> f, mobi |-> i, out |-> o,
       buf |-> Fill(FormatBufLen(f), 170), ret |-> NoValue, supported |-> TRUE,
       stage |-> "start", nmem |-> <<>>, nret |-> NoValue, done |-> FALSE] :
        f \in FieldNames,
        i \in { Ptr(x) : x \in Identifiers } \cup {NULL},
        o \in {Ptr("buf"), NULL} }

InitFormat ==
    /\ DeriveQuiet
    /\ norm = NormIdle
    /\ threads = ThreadsIdle
    /\ unit \in FormatCalls

\* The caller formats a field of an identifier.  For lng there is no
\* function to call.
FormatCall ==
    /\ unit.stage = "start"
    /\ IF unit.field \in FormattedFields
       THEN \E r \in {FormatField(unit.field, unit.mobi, unit.out, unit.buf)} :
               unit' = [unit EXCEPT !.ret = r.ret, !.buf = r.buf,
                                    !.stage = "formatted", !.done = TRUE]
       ELSE unit' = [unit EXCEPT !.supported = FALSE, !.stage = "formatted",
                                 !.done = TRUE]
    /\ UNCHANGED <<deriveVars, norm, threads>>

\* The caller normalizes the formatted string into a buffer of the field's
\* size.
NormalizeFormatted ==
    /\ unit.stage = "formatted"
    /\ unit.supported
    /\ unit.ret = MOBI_OK
    /\ \E n \in {Len(FieldOf(Deref(unit.mobi), unit.field))} :
       \E r \in {mobi_normalize(Ptr(CStr(unit.buf)), Ptr("digits"), NormMemory(n), n)} :
           unit' = [unit EXCEPT !.nret = r.ret, !.nmem = r.mem,
                                !.stage = "normalized"]
    /\ UNCHANGED <<deriveVars, norm, threads>>

NextFormat == FormatCall \/ NormalizeFormatted

SpecFormat == InitFormat /\ [][NextFormat]_vars

(***************************************************************************)
(* Definitions the properties are stated with.                             *)
(***************************************************************************)
IsDigitString(s) == \A k \in 1..Len(s) : s[k] \in 48..57

\* a < b for big-endian byte strings of one length, decided from byte k on.
RECURSIVE LexLessFrom(_, _, _)
LexLessFrom(a, b, k) ==
    /\ k <= Len(a)
    /\ \/ a[k] < b[k]
       \/ a[k] = b[k] /\ LexLessFrom(a, b, k + 1)

\* The 72-bit sample of a digest: its first 9 bytes, big-endian.
Sample(digest) == SubSeq(digest, 1, 9)

\* v < 10^21 for a 9-byte sample
BelowBound(v) == LexLessFrom(v, TenPow21, 1)

\* bytes * 10 + carry on a big-endian byte string, from byte k down.
RECURSIVE TimesTenPlus(_, _, _)
TimesTenPlus(bytes, carry, k) ==
    IF k = 0 \/ bytes # bytes THEN bytes
    ELSE TimesTenPlus(Put(bytes, k - 1, (bytes[k] * 10 + carry) % 256),
                      (bytes[k] * 10 + carry) \div 256, k - 1)

\* The number a digit string denotes, as 10 big-endian bytes (from char k on,
\* with acc the value of the chars before).
RECURSIVE DecimalFrom(_, _, _)
DecimalFrom(s, acc, k) ==
    IF k > Len(s) \/ acc # acc THEN acc
    ELSE DecimalFrom(s, TimesTenPlus(acc, s[k] - 48, 10), k + 1)

DecimalValue(s) == DecimalFrom(s, Fill(10, 0), 1)

\* s is the rendering of sample v: 21 decimal digits whose number is v.
Renders(s, v) ==
    /\ Len(s) = 21
    /\ IsDigitString(s)
    /\ DecimalValue(s) = <<0>> \o v

\* The message the claims give round r of key: the key, then the byte r.
ExpectedMessage(key, r) == IF r = 0 THEN key ELSE key \o <<r>>

Returned == pc = "ret"

Succeeded == pc = "ret" /\ ret = MOBI_OK

\* The loop of mobi_derive_bytes ran to its end: 256 rounds, all rejected.
AllRoundsRejected ==
    pc = "ret" /\ core /\ nhash = 256 /\ ~BelowBound(Sample(hash))

IsHexChar(c) == c \in (48..57) \cup (97..102) \cup (65..70)

HexVal(c) == IF c <= 57 THEN c - 48 ELSE IF c >= 97 THEN c - 87 ELSE c - 55

\* The bytes a well-formed hex string denotes.
HexBytes(s) ==
    Array([k \in 1..(Len(s) \div 2) |-> HexVal(s[2 * k - 1]) * 16 + HexVal(s[2 * k])])

(***************************************************************************)
(* try_convert_hash as a specification of its own.                         *)
(***************************************************************************)
\* 10^k and 10^k - 1 as 9 big-endian bytes.
PowTen(k) == Tail(DecimalValue(<<49>> \o Fill(k, 48)))

Nines(k) == Tail(DecimalValue(Fill(k, 57)))

\* Inputs of the converter: small values, the powers of ten up to 10^21
\* and their predecessors, the values around 10^21, 2^72 - 1, and the
\* samples of the digests the model's keys give.
ConvertInputs ==
    { Fill(8, 0) \o <<b>> : b \in {0, 1, 9, 10, 99, 100, 255} }
    \cup { Fill(7, 0) \o <<1, 0>>, Fill(9, 255), TenPow21, StubMaxSample,
           << \H36, \H35, \Hc9, \Had, \Hc5, \Hde, \Ha0, \H00, \H01 >>,
           << \H36, \H35, \Hc9, \Had, \Hc5, \Hde, \Ha1, \H00, \H00 >>,
           << \H37, 0, 0, 0, 0, 0, 0, 0, 0 >>, << \H80, 0, 0, 0, 0, 0, 0, 0, 0 >> }
    \cup { PowTen(k) : k \in 1..21 }
    \cup { Nines(k) : k \in 1..21 }
    \cup { SubSeq(Sha256Cache[d], 1, 9) : d \in DOMAIN Sha256Cache }

ConvertCalls ==
    { [op |-> "try_convert_hash", hash |-> h, out0 |-> o, out |-> o,
       ret |-> NoValue, done |-> FALSE] :
        h \in ConvertInputs, o \in {Fill(MOBI_FULL_LEN + 1, 88), Fill(MOBI_FULL_LEN + 1, 57)} }

InitConvert ==
    /\ DeriveQuiet
    /\ norm = NormIdle
    /\ threads = ThreadsIdle
    /\ unit \in ConvertCalls

\* The call try_convert_hash(hash, out).
ConvertCall ==
    /\ ~unit.done
    /\ \E t \in {try_convert_hash(unit.hash, unit.out)} :
           unit' = [unit EXCEPT !.ret = t.ret, !.out = t.out, !.done = TRUE]
    /\ UNCHANGED <<deriveVars, norm, threads>>

NextConvert == ConvertCall

SpecConvert == InitConvert /\ [][NextConvert]_vars

(***************************************************************************)
(* sha256 as a specification of its own.                                   *)
(***************************************************************************)
\* Longest message hashed.
MaxMsgLen == 128

\* A message of L bytes.
PatternMessage(L) == Array([i \in 1..L |-> (i * 7 + L) % 256])

\* Messages: one of each length, and the sampler's 32- and 33-byte inputs.
HashMessages ==
    { PatternMessage(L) : L \in 0..MaxMsgLen }
    \cup { Keys[k] : k \in 1..NumKeys }
    \cup { Keys[k] \o <<r>> : k \in 1..NumKeys, r \in {1, 255} }

HashCalls ==
    { [op |-> "sha256", data |-> d, blocks |-> <<>>, digest |-> <<>>,
       done |-> FALSE] : d \in HashMessages }

InitHash ==
    /\ DeriveQuiet
    /\ norm = NormIdle
    /\ threads = ThreadsIdle
    /\ unit \in HashCalls

\* The call sha256(data, len, digest); blocks are the blocks given to
\* sha256_transform, by sha256_update and then by sha256_final.
HashCall ==
    /\ ~unit.done
    /\ \E c \in {sha256_update(sha256_init, unit.data)} :
       \E fb \in {FinalBlocks(c)} :
       \E st \in {TransformAll(c.state, fb, 1)} :
           unit' = [unit EXCEPT !.blocks = c.blocks \o fb,
                                !.digest = StateBytes(st), !.done = TRUE]
    /\ UNCHANGED <<deriveVars, norm, threads>>

NextHash == HashCall

SpecHash == InitHash /\ [][NextHash]_vars

(***************************************************************************)
(* mobi_derive_bytes called by several threads.  A call's working state is *)
(* its automatic variables hash and input (mobi.c:287-288) and the ctx of  *)
(* sha256 (mobi.c:164), which lives within one hashing step; the key and   *)
(* the output belong to the caller.  Memory is a set of cells, each        *)
(* remembering the thread that last wrote it.                              *)
(***************************************************************************)
\* Number of threads.
NumThreads == 2

\* Variant of LocalOf: hash and input are static, one copy for all calls.
LocalOf_static(t) == 0

\* The storage of the automatic variables of thread t's call: a frame of
\* its own.
LocalOf(t) == t

\* Keys accepted by sha256 in round 1, 5 and 0.
ThreadKeys == { Keys[1], Keys[2], Keys[3] }

Cell(v, t) == [val |-> v, by |-> t]

\* A cell another thread wrote last.
Foreign(cell, t) == cell.by # 0 /\ cell.by # t

ThreadSetups ==
    { [thr |-> Array([t \in 1..NumThreads |->
                  [pc |-> "entry", key |-> ks[t], round |-> 0, ret |-> NoValue,
                   out0 |-> GarbageOut(IF t % 2 = 1 THEN 88 ELSE 57),
                   overlapped |-> FALSE]]),
       mem |-> [input |-> [f \in 0..NumThreads |->
                              Cell(Fill(MOBI_PUBKEY_LEN + 1, g), 0)],
                hash |-> [f \in 0..NumThreads |->
                              Cell(Fill(SHA256_DIGEST_SIZE, g), 0)],
                out |-> Array([t \in 1..NumThreads |->
                              Cell(GarbageOut(IF t % 2 = 1 THEN 88 ELSE 57), 0)])],
       garbage |-> g,
       shared |-> FALSE] :
      ks \in [1..NumThreads -> ThreadKeys], g \in GarbageBytes }

InitThreads ==
    /\ DeriveQuiet
    /\ norm = NormIdle
    /\ unit = UnitIdle
    /\ threads \in ThreadSetups

\* Some other thread is inside its call.
Overlaps(t) ==
    \E u \in 1..NumThreads : u # t /\ threads.thr[u].pc \in {"hash", "convert"}

\* Thread t enters mobi_derive_bytes (lines 291-296): the arguments are not
\* null and the key is copied into input.
ThreadEntry(t) ==
    /\ threads.thr[t].pc = "entry"
    /\ LET f == LocalOf(t)
           old == threads.mem.input[f]
           e == DeriveBytesEntry(Ptr(threads.thr[t].key),
                                 Ptr(threads.mem.out[t].val),
                                 old.val[MOBI_PUBKEY_LEN + 1])
       IN  threads' =
               [threads EXCEPT
                   !.thr[t].pc = IF e.pc = "loop" THEN "hash" ELSE "done",
                   !.thr[t].ret = e.ret,
                   !.thr[t].overlapped = @ \/ Overlaps(t),
                   !.mem.input[f] = Cell(e.input, t),
                   !.shared = @ \/ Foreign(old, t)]
    /\ UNCHANGED <<deriveVars, norm, unit>>

\* Thread t hashes the message of its round (lines 307-312) into hash.
ThreadHash(t) ==
    /\ threads.thr[t].pc = "hash"
    /\ LET f == LocalOf(t)
           r == threads.thr[t].round
           oldin == threads.mem.input[f]
           oldh == threads.mem.hash[f]
           rm == RoundMessage(r, Ptr(threads.thr[t].key), oldin.val)
       IN  threads' =
               [threads EXCEPT
                   !.thr[t].pc = "convert",
                   !.thr[t].overlapped = @ \/ Overlaps(t),
                   !.mem.input[f] = IF r = 0 THEN oldin ELSE Cell(rm.input, t),
                   !.mem.hash[f] = Cell(Digest(Sha256Fn, rm.msg), t),
                   !.shared = @ \/ (r # 0 /\ Foreign(oldin, t)) \/ Foreign(oldh, t)]
    /\ UNCHANGED <<deriveVars, norm, unit>>

\* Thread t converts hash (lines 314-327): an accepted round writes the
\* output and returns, a rejected one goes to the next round or, after the
\* last, to the return of line 333.
ThreadConvert(t) ==
    /\ threads.thr[t].pc = "convert"
    /\ LET f == LocalOf(t)
           r == threads.thr[t].round
           h == threads.mem.hash[f]
           o == threads.mem.out[t]
           c == try_convert_hash(h.val, o.val.full)
           last == ~(r + 1 < MOBI_MAX_ROUNDS)
       IN  threads' =
               [threads EXCEPT
                   !.thr[t].pc = IF c.ret # 0 \/ last THEN "done" ELSE "hash",
                   !.thr[t].ret = IF c.ret # 0 THEN MOBI_OK
                                  ELSE IF last THEN ExhaustedReturn ELSE @,
                   !.thr[t].round = IF c.ret # 0 THEN r ELSE r + 1,
                   !.thr[t].overlapped = @ \/ Overlaps(t),
                   !.mem.out[t] =
                       IF c.ret # 0
                       THEN Cell(ExtractPrefixes([o.val EXCEPT !.full = c.out]), t)
                       ELSE Cell([o.val EXCEPT !.full = c.out], t),
                   !.shared = @ \/ Foreign(h, t) \/ Foreign(o, t)]
    /\ UNCHANGED <<deriveVars, norm, unit>>

NextThreads ==
    \E t \in 1..NumThreads : ThreadEntry(t) \/ ThreadHash(t) \/ ThreadConvert(t)

SpecThreads == InitThreads /\ [][NextThreads]_vars

(***************************************************************************)
(* Properties.                                                             *)
(***************************************************************************)
\* While a call is in mobi_derive_bytes with n >= 1 hashes made, the last
\* message is the one of round n - 1, hash is its digest, a call still in
\* the loop has a rejected sample, and a call that returned success holds
\* the rendering of an accepted sample.
C1_State ==
    (core /\ nhash >= 1) =>
        /\ msg = ExpectedMessage(Deref(pubkey), nhash - 1)
        /\ hash = Digest(hashfn, msg)
        /\ pc = "loop" => ~BelowBound(Sample(hash))
        /\ Succeeded => /\ BelowBound(Sample(hash))
                        /\ Renders(CStr(m.full), Sample(hash))

\* Hashes are counted one by one, and a further hash is made only after a
\* rejected sample.
C1_Step ==
    /\ nhash' \in {nhash, nhash + 1, 0}
    /\ (nhash' = nhash + 1 /\ nhash >= 1) => ~BelowBound(Sample(hash))
    /\ (nhash' = nhash + 1) => pc = "loop" /\ nhash <= 255

\* C1: mobi_derive_bytes tries rounds 0, 1, ..., 255 in increasing order;
\* round 0 hashes the 32 key bytes and round r >= 1 the key bytes followed by
\* the byte r; the identifier returned renders the first 9 digest bytes of
\* the first round whose value is below 10^21, and no round is hashed after
\* an acceptance.
C1_RoundOrder == [](C1_State) /\ [][C1_Step]_vars

\* The "abandon" key of the test suite is accepted at round 5, after five
\* rejected rounds.
C1_Witness ==
    /\ Succeeded
    /\ hashfn = Sha256Fn
    /\ nhash = 6
    /\ msg = Keys[2] \o <<5>>
    /\ CStr(m.full) = <<56, 55, 57, 48, 52, 52, 54, 53, 54, 53, 56, 52, 54, 56, 54, 49, 57, 54, 52, 52, 51>>

\* C2: whenever a derive call returns success, the number denoted by the
\* field full is strictly less than 10^21.
C2_FullBelowBound ==
    Succeeded =>
        /\ IsDigitString(CStr(m.full))
        /\ Len(CStr(m.full)) <= 22
        /\ LexLessFrom(DecimalFrom(CStr(m.full), Fill(10, 0), 1), <<0>> \o TenPow21, 1)

\* The largest value the bound admits, 10^21 - 1, is returned.
C2_Witness ==
    /\ Succeeded
    /\ hashfn.kind = "stub"
    /\ CStr(m.full) = Fill(21, 57)

C4_AllOrNothing ==
    (pc \in {"loop", "ret"}) =>
        IF Succeeded
        THEN /\ BelowBound(Sample(hash))
             /\ DecimalValue(SubSeq(m.full, 1, 21)) = <<0>> \o Sample(hash)
        ELSE m = m0

\* An error return of each kind has been seen with the structure as it was:
\* here the one after 256 rejected rounds, half of them with a sample of
\* exactly 10^21.
C4_Witness ==
    /\ Returned
    /\ ret # MOBI_OK
    /\ fn = "mobi_derive_bytes"
    /\ nhash = 256
    /\ m = m0

\* C5 (safety part): a call makes at most 256 hashes and the round hashed
\* is never above 255.
C5_State ==
    /\ nhash <= 256
    /\ (core /\ nhash >= 1) => Len(msg) = 32 \/ (Len(msg) = 33 /\ msg[33] = nhash - 1)
    /\ pc = "loop" => round = nhash
    /\ Succeeded => round = nhash - 1 /\ round <= 255
    /\ (Returned /\ core /\ ret # MOBI_OK /\ pubkey # NULL /\ out_arg # NULL) =>
           round = 256 /\ nhash = 256

\* C5: the rejection loop of mobi_derive_bytes terminates after at most 256
\* hash computations, in success or in an error return, and never runs a
\* round with index above 255.
C5_Terminates == [](C5_State) /\ ((pc = "loop") ~> (pc = "ret"))

\* Acceptance at the last round, 255, after 256 hashes.
C5_Witness ==
    /\ Succeeded
    /\ nhash = 256
    /\ round = 255
    /\ msg[33] = 255

\* C6: after a successful derive, display is the first 12 characters of
\* full, extended the first 15 and lng the first 18.
C6_NestedPrefixes ==
    Succeeded =>
        /\ CStr(m.display) = SubSeq(CStr(m.full), 1, 12)
        /\ CStr(m.extended) = SubSeq(CStr(m.full), 1, 15)
        /\ CStr(m.lng) = SubSeq(CStr(m.full), 1, 18)
        /\ Len(CStr(m.full)) >= 18

\* The all-zero key of the test suite: 587135537154686717107.
C6_Witness ==
    /\ Succeeded
    /\ hashfn = Sha256Fn
    /\ Deref(pubkey) = Keys[1]
    /\ CStr(m.display) = <<53, 56, 55, 49, 51, 53, 53, 51, 55, 49, 53, 52>>
    /\ CStr(m.extended) = <<53, 56, 55, 49, 51, 53, 53, 51, 55, 49, 53, 52, 54, 56, 54>>
    /\ CStr(m.lng) = <<53, 56, 55, 49, 51, 53, 53, 51, 55, 49, 53, 52, 54, 56, 54, 55, 49, 55>>

\* C7: after a successful derive every character of every field is an ASCII
\* decimal digit, and full, lng, extended and display have exactly 21, 18,
\* 15 and 12 characters, each followed by a terminator.
C7_DigitsAndLengths ==
    Succeeded =>
        /\ Len(CStr(m.full)) = 21 /\ m.full[22] = 0
        /\ Len(CStr(m.lng)) = 18 /\ m.lng[19] = 0
        /\ Len(CStr(m.extended)) = 15 /\ m.extended[16] = 0
        /\ Len(CStr(m.display)) = 12 /\ m.display[13] = 0
        /\ IsDigitString(CStr(m.full))
        /\ IsDigitString(CStr(m.lng))
        /\ IsDigitString(CStr(m.extended))
        /\ IsDigitString(CStr(m.display))

\* A sample of three digits, 263, written over a structure full of 'X':
\* eighteen zeros are padded in front.
C7_Witness ==
    /\ Succeeded
    /\ m0 = GarbageOut(88)
    /\ CStr(m.full) = Fill(18, 48) \o <<50, 54, 51>>
    /\ CStr(m.display) = Fill(12, 48)

\* C8: derivation is deterministic: two derive calls with the same key
\* return the same status and, when they succeed, identical values in all
\* four fields, whatever the structure held before and whatever calls came
\* earlier.  (history holds the calls that reached the loop.)
C8_Deterministic ==
    \A i, j \in 1..Len(history) :
        history[i].key = history[j].key =>
            /\ history[i].ret = history[j].ret
            /\ history[i].ret = MOBI_OK => history[i].m = history[j].m

\* Two successful calls with one key, the structure holding different
\* contents before each.
C8_Witness ==
    /\ Len(history) = 2
    /\ hashfn = Sha256Fn
    /\ history[1].key = history[2].key
    /\ history[1].ret = MOBI_OK
    /\ history[1].m0 # history[2].m0
    /\ history[1].m = history[2].m

\* C9: mobi_derive returns NullInput if the key string or the output is
\* missing; otherwise InvalidLength if the string is not 64 characters long;
\* otherwise InvalidHex if a character is not in 0-9, a-f, A-F; and
\* mobi_derive_bytes is entered only when all three checks pass, with the
\* bytes the string denotes.
C9_GateOrder ==
    (fn = "mobi_derive" /\ pc \in {"loop", "ret"}) =>
        IF pubkey_hex = NULL \/ out_arg = NULL
        THEN Returned /\ ret = MOBI_ERR_NULL /\ ~core
        ELSE IF Len(Deref(pubkey_hex)) # 64
        THEN Returned /\ ret = MOBI_ERR_INVALID_LEN /\ ~core
        ELSE IF \E k \in 1..64 : ~IsHexChar(Deref(pubkey_hex)[k])
        THEN Returned /\ ret = MOBI_ERR_INVALID_HEX /\ ~core
        ELSE core /\ pubkey = Ptr(HexBytes(Deref(pubkey_hex)))

\* A string of 63 characters with a non-hex character in it: the length
\* decides.
C9_Witness ==
    /\ fn = "mobi_derive"
    /\ Returned
    /\ out_arg # NULL
    /\ pubkey_hex # NULL
    /\ Len(Deref(pubkey_hex)) = 63
    /\ \E k \in 1..63 : ~IsHexChar(Deref(pubkey_hex)[k])
    /\ ret = MOBI_ERR_INVALID_LEN

\* The number of decimal digits in a string.
DigitCount(s) == Cardinality({ k \in 1..Len(s) : isdigit(s[k]) })

IsAllowedChar(c) == c \in (48..57) \cup {45, 32, 46, 40, 41}

\* C10: for every input string holding a character that is neither a
\* decimal digit nor one of hyphen, space, period, '(' or ')',
\* mobi_normalize fails with InvalidChar, wherever the character occurs.
\* (Stated for the calls mobi.h allows: both pointers given and a buffer of
\* at least the input's digit count + 1 bytes.)
C10_BadCharFails ==
    (/\ norm.done
     /\ norm.input # NULL
     /\ norm.out # NULL
     /\ norm.out_len >= DigitCount(Deref(norm.input)) + 1
     /\ \E k \in 1..Len(Deref(norm.input)) : ~IsAllowedChar(Deref(norm.input)[k]))
        => norm.ret = MOBI_ERR_INVALID_CHAR

\* The digits of a string, in order.
Digits(s) == SelectSeq(s, isdigit)

\* C11: for an input of digits and allowed separators only and a buffer of
\* at least (digits in the input) + 1 bytes, mobi_normalize writes exactly
\* the input's digits in their order, then a terminator, touches nothing
\* else, and returns the number of digits.
C11_DigitsPassThrough ==
    (/\ norm.done
     /\ norm.input # NULL
     /\ norm.out # NULL
     /\ \A k \in 1..Len(Deref(norm.input)) : IsAllowedChar(Deref(norm.input)[k])
     /\ norm.out_len >= DigitCount(Deref(norm.input)) + 1)
        => LET d == DigitCount(Deref(norm.input))
           IN  /\ norm.ret = d
               /\ SubSeq(norm.mem, 1, d) = Digits(Deref(norm.input))
               /\ norm.mem[d + 1] = 0
               /\ \A k \in (d + 2)..Len(norm.mem) : norm.mem[k] = 170
               /\ ~norm.crashed

\* "1-9-" into a buffer of exactly 3 bytes.
C11_Witness ==
    /\ norm.done
    /\ norm.input = Ptr(<<49, 45, 57, 45>>)
    /\ norm.out # NULL
    /\ norm.out_len = 3
    /\ norm.ret = 2
    /\ SubSeq(norm.mem, 1, 3) = <<49, 57, 0>>

\* C19: mobi_normalize never writes more than out_len bytes at out, the
\* terminator included, whatever the input and the buffer size, out_len = 0
\* and out_len = 1 included.
C19_WritesWithinBuffer == norm.done => norm.wrote <= norm.out_len

\* C13: mobi_validate returns valid (1) if and only if the string is
\* non-null, its length is exactly 12, 15, 18 or 21 and every character is
\* a decimal digit; it returns 0 otherwise.
C13_ValidateIff ==
    unit.done =>
        /\ unit.ret \in {0, 1}
        /\ unit.ret = 1 <=>
              /\ unit.arg # NULL
              /\ Len(Deref(unit.arg)) \in {12, 15, 18, 21}
              /\ \A k \in 1..Len(Deref(unit.arg)) : Deref(unit.arg)[k] \in 48..57

\* The formatted string "650-073-047-435" has a valid length, 15, and is
\* invalid for its hyphens.
C13_Witness ==
    /\ unit.done
    /\ unit.arg = Ptr(<<54, 53, 48, 45, 48, 55, 51, 45, 48, 52, 55, 45, 52, 51, 53>>)
    /\ unit.ret = 0

\* The digits of a field of an identifier.
FieldDigits(u) == CStr(FieldOf(Deref(u.mobi), u.field))

\* s is t in groups of three joined by single hyphens.
IsGrouped(s, t) ==
    /\ Len(t) % 3 = 0
    /\ Len(s) = Len(t) + (Len(t) \div 3) - 1
    /\ \A k \in 1..Len(s) :
          IF k % 4 = 0 THEN s[k] = 45 ELSE s[k] = t[k - (k \div 4)]

\* C14: for each of the four fields display, extended, lng and full the
\* library's formatting operation outputs the field's digits unchanged and
\* in order in groups of 3 separated by single hyphens, of length 15, 19,
\* 23 and 27.
C14_FormatsAllFields ==
    (unit.done /\ unit.mobi # NULL /\ unit.out # NULL) =>
        /\ unit.supported
        /\ unit.ret = MOBI_OK
        /\ IsGrouped(CStr(unit.buf), FieldDigits(unit))
        /\ Len(CStr(unit.buf)) \in {15, 19, 23, 27}
        /\ Len(CStr(unit.buf)) < Len(unit.buf)

\* C12: for each field (display, extended, lng, full) of an identifier,
\* normalizing the formatted rendering of the field gives back the field's
\* digit string.
C12_RoundTrip ==
    (unit.done /\ unit.mobi # NULL /\ unit.out # NULL) =>
        /\ unit.supported
        /\ unit.stage = "normalized" =>
              /\ unit.nret = Len(FieldDigits(unit))
              /\ CStr(unit.nmem) = FieldDigits(unit)

\* C16: for a 9-byte input whose value v is below 10^21 the converter's
\* repeated division by 10 over the 10-byte work buffer yields the decimal
\* representation of v, left-padded with '0' to 21 characters: a pass
\* replaces the buffer by floor(buffer / 10) and gives buffer mod 10, the
\* first pass giving the last digit; for v = 0 the result is 21 '0's.
C16_ExactDecimal ==
    (unit.done /\ BelowBound(unit.hash)) =>
        /\ unit.ret = 1
        /\ Renders(SubSeq(unit.out, 1, 21), unit.hash)
        /\ unit.out[22] = 0
        /\ unit.hash = Fill(9, 0) => SubSeq(unit.out, 1, 21) = Fill(21, 48)
        /\ LET p == DivPass(<<0>> \o unit.hash, 0, 0)
           IN  /\ p.remainder \in 0..9
               /\ TimesTenPlus(p.work, p.remainder, 10) = <<0>> \o unit.hash
               /\ unit.hash # Fill(9, 0) => unit.out[21] = 48 + p.remainder

\* 10^20, the smallest value of 21 digits, written over 'X's.
C16_Witness ==
    /\ unit.done
    /\ unit.hash = PowTen(20)
    /\ unit.out0 = Fill(22, 88)
    /\ unit.out = <<49>> \o Fill(20, 48) \o <<0>>

\* C17: the converter accepts a 9-byte input if and only if its value is
\* below 10^21; an input in [10^21, 2^72) has 22 decimal digits and is
\* rejected with the output untouched; an accepted one has at most 21.
C17_AcceptIffBelow ==
    unit.done =>
        LET e == ExtractDigits(<<0>> \o unit.hash, Fill(24, 0), 0)
        IN  /\ unit.ret \in {0, 1}
            /\ unit.ret = 1 <=> BelowBound(unit.hash)
            /\ DecimalValue(SubSeq(e.digits, 1, e.num_digits)) = <<0>> \o unit.hash
            /\ unit.ret = 0 => unit.out = unit.out0 /\ e.num_digits = 22
            /\ unit.ret = 1 => e.num_digits <= 21

\* Exactly 10^21 is rejected and the output keeps its 'X's.
C17_Witness ==
    /\ unit.done
    /\ unit.hash = TenPow21
    /\ unit.ret = 0
    /\ unit.out = Fill(22, 88)

\* Byte k (from 1) of the concatenation of 64-byte blocks.
BlockByte(blocks, k) == blocks[((k - 1) \div 64) + 1][((k - 1) % 64) + 1]

\* C18: for a message of L bytes the hash engine compresses exactly
\* ceil((L + 9) / 64) blocks of 64 bytes: the L message bytes, one 0x80
\* byte, zero bytes, and 8 * L as a 64-bit big-endian integer in the last 8
\* bytes; the 32- and 33-byte sampler inputs take one block, and lengths
\* with L mod 64 in 56..63 take one block more.
C18_PaddedBlocks ==
    unit.done =>
        LET L == Len(unit.data)
            n == Len(unit.blocks)
        IN  /\ n = (L + 9 + 63) \div 64
            /\ \A b \in 1..n : Len(unit.blocks[b]) = 64
            /\ \A k \in 1..L : BlockByte(unit.blocks, k) = unit.data[k]
            /\ BlockByte(unit.blocks, L + 1) = 128
            /\ \A k \in (L + 2)..(64 * n - 4) : BlockByte(unit.blocks, k) = 0
            /\ BlockByte(unit.blocks, 64 * n - 3) * 16777216
                 + BlockByte(unit.blocks, 64 * n - 2) * 65536
                 + BlockByte(unit.blocks, 64 * n - 1) * 256
                 + BlockByte(unit.blocks, 64 * n) = 8 * L
            /\ L \in {32, 33} => n = 1
            /\ n = (L \div 64) + (IF L % 64 \in 56..63 THEN 2 ELSE 1)
            /\ Len(unit.digest) = 32

\* A message of 120 bytes: 120 mod 64 = 56, three blocks.
C18_Witness ==
    /\ unit.done
    /\ Len(unit.data) = 120
    /\ Len(unit.blocks) = 3
    /\ unit.blocks[2][57] = 128

\* C15: under every interleaving of the steps of several threads' calls of
\* mobi_derive_bytes, each with a key and an output of its own, a call
\* returns the status and the identifier it returns when run alone, and no
\* step reads or writes a cell that another thread's call has written.
C15_ThreadsIndependent ==
    /\ ~threads.shared
    /\ \A t \in 1..NumThreads :
           threads.thr[t].pc = "done" =>
               [ret |-> threads.thr[t].ret, out |-> threads.mem.out[t].val]
                 = mobi_derive_bytes(Sha256Fn, Ptr(threads.thr[t].key),
                                     Ptr(threads.thr[t].out0),
                                     threads.thr[t].out0, threads.garbage)

\* Two calls with different keys have both returned, each after rounds that
\* ran while the other call was in progress.
C15_Witness ==
    /\ \A t \in 1..NumThreads :
           /\ threads.thr[t].pc = "done"
           /\ threads.thr[t].ret = MOBI_OK
           /\ threads.thr[t].overlapped
    /\ threads.thr[1].round = 1
    /\ threads.thr[2].round = 5
    /\ threads.thr[1].key # threads.thr[2].key

=============================================================================
